---------------------------- MODULE Spec2Model ----------------------------
(***************************************************************************)
(* A model of the Brainfuck interpreter: the loader and bracket validator  *)
(* of crate bf_types (Program::new, Program::validate) and the virtual     *)
(* machine of crate bf_interp (VM::new, VM::interpret and its instruction  *)
(* handlers, the u8 CellKind and the AutoNewlineWriter).                   *)
(*                                                                         *)
(* A character of the source text is a string token: the eight opcode      *)
(* characters, the line break "\n", "c" for any other one-byte character   *)
(* and "U+4E2D" for a character whose UTF-8 encoding takes three bytes.    *)
(***************************************************************************)
EXTENDS Integers, Sequences, FiniteSets, TLC

VARIABLES
    file_path,      \* Program.file_path
    source,         \* the text handed to Program::new
    instructions,   \* Program.instructions
    validation,     \* what Program::validate returned
    stage,          \* where the caller stands: source, loaded, validated,
                    \* constructed, running, dropping, returned
    memory,         \* VM.memory
    pointer,        \* VM.pointer
    can_extend,     \* VM.can_extend
    program_counter,\* VM.program_counter
    open_to_close,  \* VM.open_to_close
    close_to_open,  \* VM.close_to_open
    read_source,    \* interpret's read_source, a Cursor: its bytes (inner)
                    \* and how many of them it has yielded (pos)
    write_destination, \* the bytes interpret's write_destination holds
    writer_full,    \* the wrapped writer takes no more bytes: it answered
                    \* a write with Ok(0)
    last_written_char_is_newline, \* AutoNewlineWriter's flag
    result,         \* what VM::interpret returns
    before          \* the VM as it stood before the latest instruction, and
                    \* that instruction's opcode

loader_vars == <<file_path, source, instructions, validation>>

vm_vars ==
    <<memory, pointer, can_extend, program_counter, open_to_close, close_to_open>>

io_vars ==
    <<read_source, write_destination, writer_full, last_written_char_is_newline>>

vars == <<loader_vars, stage, vm_vars, io_vars, result, before>>

---------------------------------------------------------------------------
(* Bounds of the model.                                                    *)

\* Longest source text of the loader specification.
MaxSrcLen == 4

\* Longest program text the virtual machine is run on.
MaxProgLen == 4

\* Largest memory_size a VM is constructed with.
MaxMemorySize == 2

\* Longest memory an extensible VM is followed to.
MaxTapeLen == 8

\* Most bytes a run is followed to write.
MaxOutputLen == 3

\* The longest buffer of a write call on the AutoNewlineWriter alone, and
\* the most bytes its calls put into the Vec.
MaxBufLen == 2

MaxWrittenLen == 4

\* Most Increments before the loop of a counted loop: every value a cell
\* can count down from.
MaxIncrements == 255

\* Longest counted loop whose state is compared with what Program::new,
\* Program::validate and VM::new compute.
MaxRebuilt == 16

\* Longest program without loops; at most MaxOutputLen, so that it can
\* write a byte with each of its instructions.
MaxStraightLen == 3

---------------------------------------------------------------------------
(* bf_types: RawInstruction, Instruction, Program::new                     *)

OpcodeChars == {"<", ">", "+", "-", ".", ",", "[", "]"}

\* One comment character of one byte and one of three bytes, and the line break.
SourceChars == OpcodeChars \cup {"\n", "c", "U+4E2D"}

RawInstruction ==
    {"MoveLeft", "MoveRight", "Increment", "Decrement", "Input", "Output",
     "BeginLoop", "EndLoop"}

\* Option::None of from_char.
None == "None"

\* A table with '.' and ',' exchanged.
from_char_swapped(c) ==
    CASE c = "<" -> "MoveLeft"
      [] c = ">" -> "MoveRight"
      [] c = "+" -> "Increment"
      [] c = "-" -> "Decrement"
      [] c = "." -> "Input"
      [] c = "," -> "Output"
      [] c = "[" -> "BeginLoop"
      [] c = "]" -> "EndLoop"
      [] OTHER -> None

from_char(c) ==
    CASE c = "<" -> "MoveLeft"
      [] c = ">" -> "MoveRight"
      [] c = "+" -> "Increment"
      [] c = "-" -> "Decrement"
      [] c = "." -> "Output"
      [] c = "," -> "Input"
      [] c = "[" -> "BeginLoop"
      [] c = "]" -> "EndLoop"
      [] OTHER -> None

\* Instruction::new
Instruction(row, col, raw_instruction) ==
    [row |-> row, col |-> col, raw_instruction |-> raw_instruction]

\* Bytes of the UTF-8 encoding of a character.
len_utf8(c) == IF c = "U+4E2D" THEN 3 ELSE 1

RECURSIVE byte_offset(_, _)
\* The byte offset of the i-th character of a line (what char_indices yields).
byte_offset(line, i) ==
    IF i = 1 THEN 0 ELSE byte_offset(line, i - 1) + len_utf8(line[i - 1])

\* line.char_indices(): byte offsets in place of character counts.
char_indices(line) ==
    [i \in 1..Len(line) |-> [idx |-> byte_offset(line, i), char |-> line[i]]]

\* line.chars().enumerate(): 0-based character index and character.
chars_enumerate(line) ==
    [i \in 1..Len(line) |-> [idx |-> i - 1, char |-> line[i]]]

\* Index of the first line break of a text, 0 when it has none.
find_newline(s) ==
    IF \E i \in 1..Len(s) : s[i] = "\n"
    THEN CHOOSE i \in 1..Len(s) :
            s[i] = "\n" /\ \A j \in 1..(i - 1) : s[j] /= "\n"
    ELSE 0

RECURSIVE split(_)
\* str::split('\n'): the pieces between line breaks; a text without a line
\* break is its only piece, and a trailing line break leaves an empty piece.
split(s) ==
    LET i == find_newline(s) IN
    IF i = 0 THEN <<s>>
    ELSE <<SubSeq(s, 1, i - 1)>> \o split(SubSeq(s, i + 1, Len(s)))

RECURSIVE push_line(_, _, _)
\* The inner loop of Program::new over one line: pairs[k..] are the
\* (col, char) pairs still to visit; an Instruction is pushed for each
\* character from_char knows.
push_line(row, pairs, k) ==
    IF k > Len(pairs) THEN <<>>
    ELSE LET raw_instruction == from_char(pairs[k].char) IN
         (IF raw_instruction /= None
          THEN <<Instruction(row + 1, pairs[k].idx + 1, raw_instruction)>>
          ELSE <<>>)
         \o push_line(row, pairs, k + 1)

RECURSIVE push_lines(_, _)
\* The outer loop of Program::new: lines.enumerate(), row counted from 0.
push_lines(lines, row) ==
    IF row >= Len(lines) THEN <<>>
    ELSE push_line(row, chars_enumerate(lines[row + 1]), 1)
         \o push_lines(lines, row + 1)

\* Program::new(file_path, lines)
Program_new(path, lines) ==
    [file_path |-> path, instructions |-> push_lines(split(lines), 0)]

---------------------------------------------------------------------------
(* bf_types: Program::validate                                             *)

Ok == [kind |-> "Ok"]

NotRun == [kind |-> "NotRun"]

MissingOpenBracket(path, ins) ==
    [kind |-> "MissingOpenBracket", file_path |-> path, close_bracket |-> ins]

MissingCloseBracket(path, ins) ==
    [kind |-> "MissingCloseBracket", file_path |-> path, open_bracket |-> ins]

\* The newest pending BeginLoop in place of the oldest.
stack_last(stack) == stack[Len(stack)]

\* stack.first(): the oldest pending BeginLoop.
stack_first(stack) == stack[1]

\* A scan's end that forgets the pending BeginLoops.
validate_end_forgetful(path, stack) == Ok

\* After the scan: an error for a pending BeginLoop, or Ok.
validate_end(path, stack) ==
    IF stack /= <<>> THEN MissingCloseBracket(path, stack_first(stack)) ELSE Ok

RECURSIVE validate_scan_lenient(_, _, _, _)
\* A scan that skips an EndLoop met with nothing pending.
validate_scan_lenient(path, ins_seq, idx, stack) ==
    IF idx > Len(ins_seq) THEN validate_end(path, stack)
    ELSE LET ins == ins_seq[idx] IN
         IF ins.raw_instruction = "BeginLoop"
         THEN validate_scan_lenient(path, ins_seq, idx + 1, Append(stack, ins))
         ELSE IF ins.raw_instruction = "EndLoop"
         THEN IF stack = <<>>
              THEN validate_scan_lenient(path, ins_seq, idx + 1, stack)
              ELSE validate_scan_lenient(path, ins_seq, idx + 1,
                                         SubSeq(stack, 1, Len(stack) - 1))
         ELSE validate_scan_lenient(path, ins_seq, idx + 1, stack)

RECURSIVE validate_scan(_, _, _, _)
\* The loop of Program::validate from instruction idx on, with the stack of
\* pending BeginLoop instructions.
validate_scan(path, ins_seq, idx, stack) ==
    IF idx > Len(ins_seq) THEN validate_end(path, stack)
    ELSE LET ins == ins_seq[idx] IN
         IF ins.raw_instruction = "BeginLoop"
         THEN validate_scan(path, ins_seq, idx + 1, Append(stack, ins))
         ELSE IF ins.raw_instruction = "EndLoop"
         THEN IF stack = <<>>
              THEN MissingOpenBracket(path, ins)
              ELSE validate_scan(path, ins_seq, idx + 1,
                                 SubSeq(stack, 1, Len(stack) - 1))
         ELSE validate_scan(path, ins_seq, idx + 1, stack)

\* Program::validate(&self)
Program_validate(path, ins_seq) == validate_scan(path, ins_seq, 1, <<>>)

---------------------------------------------------------------------------
(* bf_interp::cell_kind: CellKind for u8                                   *)

u8_zero == 0

u8_one == 1

u8_max == 255

u8_min == 0

\* An increment that saturates at the maximum.
cell_increment_saturating(cell) ==
    IF cell < u8_max THEN cell + u8_one ELSE cell

\* CellKind::increment
cell_increment(cell) ==
    IF cell < u8_max THEN cell + u8_one ELSE u8_min

\* A decrement that saturates at the minimum.
cell_decrement_saturating(cell) ==
    IF cell > u8_min THEN cell - u8_one ELSE cell

\* CellKind::decrement
cell_decrement(cell) ==
    IF cell > u8_min THEN cell - u8_one ELSE u8_max

\* CellKind::set_value of u8: the byte is the cell.
set_value(cell, value) == value

\* CellKind::get_value of u8: the cell is the byte.
get_value(cell) == cell

---------------------------------------------------------------------------
(* bf_interp::brainfuck_runtime_error and the values a handler returns     *)

\* Ok(program counter) of a handler.
OkUsize(value) == [kind |-> "Ok", value |-> value]

CannotMoveLeftError(path, ins) ==
    [kind |-> "CannotMoveLeftError", file_path |-> path, instruction |-> ins]

CannotMoveRightError(path, ins) ==
    [kind |-> "CannotMoveRightError", file_path |-> path, instruction |-> ins]

CannotReadInputError(io_error, path, ins) ==
    [kind |-> "CannotReadInputError", io_error |-> io_error,
     file_path |-> path, instruction |-> ins]

CannotWriteOutputError(io_error, path, ins) ==
    [kind |-> "CannotWriteOutputError", io_error |-> io_error,
     file_path |-> path, instruction |-> ins]

\* A panic: unwrap() of None, or an index out of bounds.
Panic == [kind |-> "Panic"]

---------------------------------------------------------------------------
(* bf_interp::auto_newline_writer                                          *)

NewlineByte == 10

\* What the wrapped writer may answer to write(buf): all of buf taken,
\* nothing taken (Ok(0)), or an error. A writer that answered Ok(0) to a
\* buffer that was not empty is taken to be full from then on.
WriteOutcomes(full) == IF full THEN {"Ok(0)"} ELSE {"Ok(n)", "Ok(0)", "Err"}

\* What the wrapped writer may answer to flush().
FlushOutcomes == {"Ok", "Err"}

\* AutoNewlineWriter::new
AutoNewlineWriter_new(writer) ==
    [writer |-> writer, last_written_char_is_newline |-> FALSE]

\* A write that puts the buffer in the place of what the writer holds.
AutoNewlineWriter_write_over(w, buf, outcome) ==
    LET flag == IF buf = <<>> THEN FALSE ELSE buf[Len(buf)] = NewlineByte
        inner == IF outcome = "Ok(n)" THEN buf ELSE w.writer
    IN [self |-> [writer |-> inner, last_written_char_is_newline |-> flag],
        ret |-> IF outcome = "Ok(n)" THEN [kind |-> "Ok", value |-> Len(buf)]
                ELSE IF outcome = "Ok(0)" THEN [kind |-> "Ok", value |-> 0]
                ELSE [kind |-> "Err", error |-> "WriteFailed"]]

\* AutoNewlineWriter::write, the wrapped writer answering with outcome.
AutoNewlineWriter_write(w, buf, outcome) ==
    LET flag == IF buf = <<>> THEN FALSE ELSE buf[Len(buf)] = NewlineByte
        inner == IF outcome = "Ok(n)" THEN w.writer \o buf ELSE w.writer
    IN [self |-> [writer |-> inner, last_written_char_is_newline |-> flag],
        ret |-> IF outcome = "Ok(n)" THEN [kind |-> "Ok", value |-> Len(buf)]
                ELSE IF outcome = "Ok(0)" THEN [kind |-> "Ok", value |-> 0]
                ELSE [kind |-> "Err", error |-> "WriteFailed"]]

\* AutoNewlineWriter::flush
AutoNewlineWriter_flush(w, outcome) ==
    [self |-> w,
     ret |-> IF outcome = "Ok" THEN [kind |-> "Ok"]
             ELSE [kind |-> "Err", error |-> "FlushFailed"]]

\* Drop for AutoNewlineWriter: the result of the write is discarded.
AutoNewlineWriter_drop(w, outcome) ==
    IF ~w.last_written_char_is_newline
    THEN AutoNewlineWriter_write(w, <<NewlineByte>>, outcome).self
    ELSE w

---------------------------------------------------------------------------
(* bf_interp: VM                                                           *)

\* Vec::resize(new_len, value)
resize(v, new_len, value) ==
    IF new_len <= Len(v) THEN SubSeq(v, 1, new_len)
    ELSE v \o [i \in 1..(new_len - Len(v)) |-> value]

\* HashMap::insert
insert(map, key, value) ==
    [k \in (DOMAIN map) \cup {key} |-> IF k = key THEN value ELSE map[k]]

\* HashMap::new
HashMap_new == [k \in {} |-> 0]

RECURSIVE matching_brackets_fifo(_, _, _, _)
\* A first loop of VM::new that pairs an EndLoop with the oldest pending
\* BeginLoop, not the latest.
matching_brackets_fifo(ins_seq, idx, stack, map) ==
    IF idx >= Len(ins_seq) THEN [kind |-> "Ok", value |-> map]
    ELSE LET ins == ins_seq[idx + 1] IN
         IF ins.raw_instruction = "BeginLoop"
         THEN matching_brackets_fifo(ins_seq, idx + 1, Append(stack, idx), map)
         ELSE IF ins.raw_instruction = "EndLoop"
         THEN IF stack = <<>> THEN Panic
              ELSE LET open_idx == stack[1] IN
                   matching_brackets_fifo(ins_seq, idx + 1,
                                          SubSeq(stack, 2, Len(stack)),
                                          insert(map, open_idx, idx))
         ELSE matching_brackets_fifo(ins_seq, idx + 1, stack, map)

RECURSIVE matching_brackets(_, _, _, _)
\* The first loop of VM::new from instruction idx (counted from 0) on: the
\* stack holds the indices of the pending BeginLoops. Yields open_to_close,
\* or Panic when an EndLoop pops the empty stack.
matching_brackets(ins_seq, idx, stack, map) ==
    IF idx >= Len(ins_seq) THEN [kind |-> "Ok", value |-> map]
    ELSE LET ins == ins_seq[idx + 1] IN
         IF ins.raw_instruction = "BeginLoop"
         THEN matching_brackets(ins_seq, idx + 1, Append(stack, idx), map)
         ELSE IF ins.raw_instruction = "EndLoop"
         THEN IF stack = <<>> THEN Panic
              ELSE LET open_idx == stack[Len(stack)] IN
                   matching_brackets(ins_seq, idx + 1,
                                     SubSeq(stack, 1, Len(stack) - 1),
                                     insert(map, open_idx, idx))
         ELSE matching_brackets(ins_seq, idx + 1, stack, map)

\* A reverse HashMap that was not reversed: keyed by the BeginLoops.
reverse_map_unswapped(map) == map

\* The second loop of VM::new: the reverse HashMap.
reverse_map(map) ==
    [close_idx \in {map[open_idx] : open_idx \in DOMAIN map} |->
        CHOOSE open_idx \in DOMAIN map : map[open_idx] = close_idx]

\* VM::new(memory_size, can_extend, program)
VM_new(memory_size, extend, program) ==
    LET otc == matching_brackets(program.instructions, 0, <<>>, HashMap_new) IN
    IF otc.kind /= "Ok" THEN Panic
    ELSE [kind |-> "Ok",
          memory |-> resize(<<>>, memory_size, u8_zero),
          pointer |-> 0,
          can_extend |-> extend,
          program_counter |-> 0,
          program |-> program,
          open_to_close |-> otc.value,
          close_to_open |-> reverse_map(otc.value)]

\* The first instruction of the program, whatever the program counter.
first_instruction(self) == self.program.instructions[1]

\* self.program.instructions()[self.program_counter]
current_instruction(self) == self.program.instructions[self.program_counter + 1]

\* self.memory[self.pointer]
current_cell(self) == self.memory[self.pointer + 1]

\* A move_left that lets the pointer stay at 0 and goes on.
move_left_clamped(self) ==
    [self |-> [self EXCEPT !.pointer = IF @ = 0 THEN 0 ELSE @ - 1],
     ret |-> OkUsize(self.program_counter + 1)]

\* A move_left that lowers the pointer without looking at it.
move_left_unchecked(self) ==
    [self |-> [self EXCEPT !.pointer = @ - 1],
     ret |-> OkUsize(self.program_counter + 1)]

\* VM::move_left
move_left(self) ==
    IF self.pointer = 0
    THEN [self |-> self,
          ret |-> CannotMoveLeftError(self.program.file_path,
                                      current_instruction(self))]
    ELSE [self |-> [self EXCEPT !.pointer = @ - 1],
          ret |-> OkUsize(self.program_counter + 1)]

\* A move_right that grows the memory by one cell.
move_right_grow_by_one(self) ==
    LET memory_size == Len(self.memory) IN
    IF self.pointer = memory_size - 1 /\ ~self.can_extend
    THEN [self |-> self,
          ret |-> CannotMoveRightError(self.program.file_path,
                                       current_instruction(self))]
    ELSE [self |-> [self EXCEPT
                      !.memory = IF self.pointer = memory_size - 1
                                 THEN resize(@, memory_size + 1, u8_zero)
                                 ELSE @,
                      !.pointer = @ + 1],
          ret |-> OkUsize(self.program_counter + 1)]

\* A move_right that checks the edge one cell late.
move_right_off_by_one(self) ==
    LET memory_size == Len(self.memory) IN
    IF self.pointer = memory_size /\ ~self.can_extend
    THEN [self |-> self,
          ret |-> CannotMoveRightError(self.program.file_path,
                                       current_instruction(self))]
    ELSE [self |-> [self EXCEPT
                      !.memory = IF self.pointer = memory_size - 1
                                    /\ self.can_extend
                                 THEN resize(@, 2 * memory_size, u8_zero)
                                 ELSE @,
                      !.pointer = @ + 1],
          ret |-> OkUsize(self.program_counter + 1)]

\* A move_right that doubles an extensible memory on every move.
move_right_grow_always(self) ==
    LET memory_size == Len(self.memory) IN
    IF self.pointer = memory_size - 1 /\ ~self.can_extend
    THEN [self |-> self,
          ret |-> CannotMoveRightError(self.program.file_path,
                                       current_instruction(self))]
    ELSE [self |-> [self EXCEPT
                      !.memory = IF self.can_extend
                                 THEN resize(@, 2 * memory_size, u8_zero)
                                 ELSE @,
                      !.pointer = @ + 1],
          ret |-> OkUsize(self.program_counter + 1)]

\* VM::move_right
move_right(self) ==
    LET memory_size == Len(self.memory) IN
    IF self.pointer = memory_size - 1 /\ ~self.can_extend
    THEN [self |-> self,
          ret |-> CannotMoveRightError(self.program.file_path,
                                       current_instruction(self))]
    ELSE [self |-> [self EXCEPT
                      !.memory = IF self.pointer = memory_size - 1
                                 THEN resize(@, 2 * memory_size, u8_zero)
                                 ELSE @,
                      !.pointer = @ + 1],
          ret |-> OkUsize(self.program_counter + 1)]

\* An increment that raises the first cell, wherever the pointer is.
increment_first_cell(self) ==
    IF self.pointer + 1 \notin DOMAIN self.memory THEN [self |-> self, ret |-> Panic]
    ELSE [self |-> [self EXCEPT !.memory[1] = cell_increment(@)],
          ret |-> OkUsize(self.program_counter + 1)]

\* VM::increment
increment(self) ==
    IF self.pointer + 1 \notin DOMAIN self.memory THEN [self |-> self, ret |-> Panic]
    ELSE [self |-> [self EXCEPT !.memory[self.pointer + 1] = cell_increment(@)],
          ret |-> OkUsize(self.program_counter + 1)]

\* A decrement that leaves the program counter where it is.
decrement_staying(self) ==
    IF self.pointer + 1 \notin DOMAIN self.memory THEN [self |-> self, ret |-> Panic]
    ELSE [self |-> [self EXCEPT !.memory[self.pointer + 1] = cell_decrement(@)],
          ret |-> OkUsize(self.program_counter)]

\* VM::decrement
decrement(self) ==
    IF self.pointer + 1 \notin DOMAIN self.memory THEN [self |-> self, ret |-> Panic]
    ELSE [self |-> [self EXCEPT !.memory[self.pointer + 1] = cell_decrement(@)],
          ret |-> OkUsize(self.program_counter + 1)]

\* Cursor::new
Cursor_new(inner) == [inner |-> inner, pos |-> 0]

\* A read_exact that hands out the next byte and leaves it in the source.
read_exact_peek(input_source, outcome) ==
    IF outcome = "Err"
    THEN [self |-> input_source, ret |-> [kind |-> "Err", error |-> "Other"]]
    ELSE IF input_source.pos >= Len(input_source.inner)
    THEN [self |-> input_source,
          ret |-> [kind |-> "Err", error |-> "UnexpectedEof"]]
    ELSE [self |-> input_source,
          ret |-> [kind |-> "Ok", buf |-> <<input_source.inner[input_source.pos + 1]>>]]

\* Read::read_exact into a buffer of one byte: the next byte of the source,
\* or an error at its end and whenever the source answers with an error.
read_exact(input_source, outcome) ==
    IF outcome = "Err"
    THEN [self |-> input_source, ret |-> [kind |-> "Err", error |-> "Other"]]
    ELSE IF input_source.pos >= Len(input_source.inner)
    THEN [self |-> input_source,
          ret |-> [kind |-> "Err", error |-> "UnexpectedEof"]]
    ELSE [self |-> [input_source EXCEPT !.pos = @ + 1],
          ret |-> [kind |-> "Ok", buf |-> <<input_source.inner[input_source.pos + 1]>>]]

\* A read_value that stores 0 and goes on when the read fails.
read_value_zero_on_error(self, input_source, outcome) ==
    LET read == read_exact(input_source, outcome) IN
    IF self.pointer + 1 \notin DOMAIN self.memory
    THEN [self |-> self, input_source |-> read.self, ret |-> Panic]
    ELSE [self |-> [self EXCEPT !.memory[self.pointer + 1] =
                        IF read.ret.kind = "Err" THEN u8_zero
                        ELSE set_value(@, read.ret.buf[1])],
          input_source |-> read.self,
          ret |-> OkUsize(self.program_counter + 1)]

\* A read_value that clears the current cell when the read fails.
read_value_clears_on_error(self, input_source, outcome) ==
    LET read == read_exact(input_source, outcome) IN
    IF read.ret.kind = "Err"
    THEN [self |-> [self EXCEPT !.memory[self.pointer + 1] = u8_zero],
          input_source |-> read.self,
          ret |-> CannotReadInputError(read.ret.error, self.program.file_path,
                                       current_instruction(self))]
    ELSE [self |-> [self EXCEPT !.memory[self.pointer + 1] =
                                    set_value(@, read.ret.buf[1])],
          input_source |-> read.self,
          ret |-> OkUsize(self.program_counter + 1)]

\* VM::read_value
read_value(self, input_source, outcome) ==
    LET read == read_exact(input_source, outcome) IN
    IF read.ret.kind = "Err"
    THEN [self |-> self, input_source |-> read.self,
          ret |-> CannotReadInputError(read.ret.error, self.program.file_path,
                                       current_instruction(self))]
    ELSE IF self.pointer + 1 \notin DOMAIN self.memory
    THEN [self |-> self, input_source |-> read.self, ret |-> Panic]
    ELSE [self |-> [self EXCEPT !.memory[self.pointer + 1] =
                                    set_value(@, read.ret.buf[1])],
          input_source |-> read.self,
          ret |-> OkUsize(self.program_counter + 1)]

\* VM::write_value: write of the one byte, then flush; the number of bytes
\* the write reports is not looked at.
write_value(self, w, write_outcome, flush_outcome) ==
    IF self.pointer + 1 \notin DOMAIN self.memory
    THEN [self |-> self, write_destination |-> w, ret |-> Panic]
    ELSE
    LET value == get_value(current_cell(self))
        written == AutoNewlineWriter_write(w, <<value>>, write_outcome)
        flushed == AutoNewlineWriter_flush(written.self, flush_outcome)
    IN IF written.ret.kind = "Err"
       THEN [self |-> self, write_destination |-> written.self,
             ret |-> CannotWriteOutputError(written.ret.error,
                         self.program.file_path, current_instruction(self))]
       ELSE IF flushed.ret.kind = "Err"
       THEN [self |-> self, write_destination |-> flushed.self,
             ret |-> CannotWriteOutputError(flushed.ret.error,
                         self.program.file_path, current_instruction(self))]
       ELSE [self |-> self, write_destination |-> flushed.self,
             ret |-> OkUsize(self.program_counter + 1)]

\* A begin_loop that jumps onto the matching EndLoop, not past it.
begin_loop_onto_close(self) ==
    IF self.pointer + 1 \notin DOMAIN self.memory THEN [self |-> self, ret |-> Panic]
    ELSE IF current_cell(self) = u8_zero
    THEN IF self.program_counter \in DOMAIN self.open_to_close
         THEN [self |-> self,
               ret |-> OkUsize(self.open_to_close[self.program_counter])]
         ELSE [self |-> self, ret |-> Panic]
    ELSE [self |-> self, ret |-> OkUsize(self.program_counter + 1)]

\* A begin_loop that skips the instruction after the matching EndLoop too.
begin_loop_two_past(self) ==
    IF self.pointer + 1 \notin DOMAIN self.memory THEN [self |-> self, ret |-> Panic]
    ELSE IF current_cell(self) = u8_zero
    THEN IF self.program_counter \in DOMAIN self.open_to_close
         THEN [self |-> self,
               ret |-> OkUsize(self.open_to_close[self.program_counter] + 2)]
         ELSE [self |-> self, ret |-> Panic]
    ELSE [self |-> self, ret |-> OkUsize(self.program_counter + 1)]

\* VM::begin_loop
begin_loop(self) ==
    IF self.pointer + 1 \notin DOMAIN self.memory THEN [self |-> self, ret |-> Panic]
    ELSE IF current_cell(self) = u8_zero
    THEN IF self.program_counter \in DOMAIN self.open_to_close
         THEN [self |-> self,
               ret |-> OkUsize(self.open_to_close[self.program_counter] + 1)]
         ELSE [self |-> self, ret |-> Panic]
    ELSE [self |-> self, ret |-> OkUsize(self.program_counter + 1)]

\* An end_loop that jumps onto the matching BeginLoop, not past it.
end_loop_onto_open(self) ==
    IF self.pointer + 1 \notin DOMAIN self.memory THEN [self |-> self, ret |-> Panic]
    ELSE IF current_cell(self) /= u8_zero
    THEN IF self.program_counter \in DOMAIN self.close_to_open
         THEN [self |-> self,
               ret |-> OkUsize(self.close_to_open[self.program_counter])]
         ELSE [self |-> self, ret |-> Panic]
    ELSE [self |-> self, ret |-> OkUsize(self.program_counter + 1)]

\* An end_loop that never jumps back.
end_loop_falls_through(self) ==
    [self |-> self, ret |-> OkUsize(self.program_counter + 1)]

\* VM::end_loop
end_loop(self) ==
    IF self.pointer + 1 \notin DOMAIN self.memory THEN [self |-> self, ret |-> Panic]
    ELSE IF current_cell(self) /= u8_zero
    THEN IF self.program_counter \in DOMAIN self.close_to_open
         THEN [self |-> self,
               ret |-> OkUsize(self.close_to_open[self.program_counter] + 1)]
         ELSE [self |-> self, ret |-> Panic]
    ELSE [self |-> self, ret |-> OkUsize(self.program_counter + 1)]

---------------------------------------------------------------------------
(* The steps of a run: load, validate, construct the VM, interpret.        *)

\* Every text of at most n characters over the alphabet.
Texts(alphabet, n) == UNION {[1..k -> alphabet] : k \in 0..n}

FilePaths == {"", "hello_world.bf"}

\* The input streams handed to interpret: an empty one, 'A', and a line
\* break followed by 'A'.
ReadSources == {<<>>, <<65>>, <<10, 65>>}

\* No instruction has run yet.
NoStep == [op |-> None]

\* The state before a VM exists.
NoVM ==
    /\ memory = <<>>
    /\ pointer = 0
    /\ can_extend = FALSE
    /\ program_counter = 0
    /\ open_to_close = HashMap_new
    /\ close_to_open = HashMap_new
    /\ read_source = Cursor_new(<<>>)
    /\ write_destination = <<>>
    /\ writer_full = FALSE
    /\ last_written_char_is_newline = FALSE
    /\ result = NotRun
    /\ before = NoStep

\* The loader alone, on texts with comments, line breaks and multi-byte
\* characters, under two file paths.
InitLoad ==
    /\ file_path \in FilePaths
    /\ source \in Texts(SourceChars, MaxSrcLen)
    /\ instructions = <<>>
    /\ validation = NotRun
    /\ stage = "source"
    /\ NoVM

\* A whole run, on texts of opcode characters.
Init ==
    /\ file_path = "hello_world.bf"
    /\ source \in Texts(OpcodeChars, MaxProgLen)
    /\ instructions = <<>>
    /\ validation = NotRun
    /\ stage = "source"
    /\ NoVM

\* let program = Program::new(file_path, source)
ProgramNew ==
    /\ stage = "source"
    /\ instructions' = Program_new(file_path, source).instructions
    /\ stage' = "loaded"
    /\ UNCHANGED <<file_path, source, validation, vm_vars, io_vars, result, before>>

\* program.validate()
Validate ==
    /\ stage = "loaded"
    /\ validation' = Program_validate(file_path, instructions)
    /\ stage' = "validated"
    /\ UNCHANGED <<file_path, source, instructions, vm_vars, io_vars, result, before>>

\* The Program the VM borrows.
TheProgram == [file_path |-> file_path, instructions |-> instructions]

\* let mut virtual_machine: VM<u8> = VM::new(memory_size, can_extend, &program),
\* on a program that passed validate (memory_size is a NonZeroUsize).
VMNew ==
    /\ stage = "validated"
    /\ validation = Ok
    /\ \E memory_size \in 1..MaxMemorySize, extend \in BOOLEAN :
          LET vm == VM_new(memory_size, extend, TheProgram) IN
          /\ vm.kind = "Ok"
          /\ memory' = vm.memory
          /\ pointer' = vm.pointer
          /\ can_extend' = vm.can_extend
          /\ program_counter' = vm.program_counter
          /\ open_to_close' = vm.open_to_close
          /\ close_to_open' = vm.close_to_open
    /\ stage' = "constructed"
    /\ UNCHANGED <<loader_vars, io_vars, result, before>>

\* virtual_machine.interpret(&mut read_source, &mut write_destination) is
\* entered: the writer is wrapped in an AutoNewlineWriter.
Interpret ==
    /\ stage = "constructed"
    /\ read_source' \in {Cursor_new(inner) : inner \in ReadSources}
    /\ LET w == AutoNewlineWriter_new(<<>>) IN
       /\ write_destination' = w.writer
       /\ last_written_char_is_newline' = w.last_written_char_is_newline
    /\ writer_full' = FALSE
    /\ stage' = "running"
    /\ UNCHANGED <<loader_vars, vm_vars, result, before>>

\* The VM as a value.
Self ==
    [memory |-> memory, pointer |-> pointer, can_extend |-> can_extend,
     program_counter |-> program_counter, program |-> TheProgram,
     open_to_close |-> open_to_close, close_to_open |-> close_to_open]

\* The AutoNewlineWriter as a value.
Writer ==
    [writer |-> write_destination,
     last_written_char_is_newline |-> last_written_char_is_newline]

\* The loop of interpret fetches an instruction with this opcode.
Fetch(op) ==
    /\ stage = "running"
    /\ program_counter < Len(instructions)
    /\ instructions[program_counter + 1].raw_instruction = op
    /\ before' = [op |-> op, memory |-> memory, pointer |-> pointer,
                  program_counter |-> program_counter,
                  read_source |-> read_source,
                  write_destination |-> write_destination]

\* A loop that notes the error of a handler and carries on with the next
\* instruction.
Commit_carrying_on(r) ==
    /\ memory' = r.self.memory
    /\ pointer' = r.self.pointer
    /\ IF r.ret.kind = "Ok"
       THEN /\ program_counter' = r.ret.value
            /\ UNCHANGED <<result, stage>>
       ELSE /\ result' = r.ret
            /\ program_counter' = program_counter + 1
            /\ UNCHANGED stage
    /\ UNCHANGED <<loader_vars, can_extend, open_to_close, close_to_open>>

\* self.program_counter = handler()?: the handler's effect on the VM, and
\* either the new program counter or the error, which ends the loop.
Commit(r) ==
    /\ memory' = r.self.memory
    /\ pointer' = r.self.pointer
    /\ IF r.ret.kind = "Ok"
       THEN /\ program_counter' = r.ret.value
            /\ UNCHANGED <<result, stage>>
       ELSE /\ result' = r.ret
            /\ stage' = "dropping"
            /\ UNCHANGED program_counter
    /\ UNCHANGED <<loader_vars, can_extend, open_to_close, close_to_open>>

MoveLeft ==
    /\ Fetch("MoveLeft")
    /\ Commit(move_left(Self))
    /\ UNCHANGED io_vars

\* A run is followed no further once its memory would outgrow MaxTapeLen.
MoveRight ==
    /\ Fetch("MoveRight")
    /\ (can_extend /\ pointer = Len(memory) - 1) => 2 * Len(memory) <= MaxTapeLen
    /\ Commit(move_right(Self))
    /\ UNCHANGED io_vars

Increment ==
    /\ Fetch("Increment")
    /\ Commit(increment(Self))
    /\ UNCHANGED io_vars

Decrement ==
    /\ Fetch("Decrement")
    /\ Commit(decrement(Self))
    /\ UNCHANGED io_vars

Input ==
    /\ Fetch("Input")
    /\ \E outcome \in {"Ok", "Err"} :
          LET r == read_value(Self, read_source, outcome) IN
          /\ Commit(r)
          /\ read_source' = r.input_source
    /\ UNCHANGED <<write_destination, writer_full, last_written_char_is_newline>>

\* A run is followed no further once it wrote MaxOutputLen bytes.
Output ==
    /\ Fetch("Output")
    /\ Len(write_destination) < MaxOutputLen
    /\ \E write_outcome \in WriteOutcomes(writer_full),
          flush_outcome \in FlushOutcomes :
          LET r == write_value(Self, Writer, write_outcome, flush_outcome) IN
          /\ Commit(r)
          /\ write_destination' = r.write_destination.writer
          /\ last_written_char_is_newline' =
                r.write_destination.last_written_char_is_newline
          /\ writer_full' = (write_outcome = "Ok(0)")
    /\ UNCHANGED read_source

BeginLoop ==
    /\ Fetch("BeginLoop")
    /\ Commit(begin_loop(Self))
    /\ UNCHANGED io_vars

EndLoop ==
    /\ Fetch("EndLoop")
    /\ Commit(end_loop(Self))
    /\ UNCHANGED io_vars

\* The loop's condition fails: interpret is about to return Ok(()).
Finish ==
    /\ stage = "running"
    /\ ~(program_counter < Len(instructions))
    /\ result' = Ok
    /\ stage' = "dropping"
    /\ UNCHANGED <<loader_vars, vm_vars, io_vars, before>>

\* interpret returns: auto_newline_writer goes out of scope.
Drop ==
    /\ stage = "dropping"
    /\ \E outcome \in WriteOutcomes(writer_full) :
          LET w == AutoNewlineWriter_drop(Writer, outcome) IN
          /\ write_destination' = w.writer
          /\ last_written_char_is_newline' = w.last_written_char_is_newline
          /\ writer_full' =
                (writer_full \/ (~last_written_char_is_newline /\ outcome = "Ok(0)"))
    /\ stage' = "returned"
    /\ UNCHANGED <<loader_vars, vm_vars, read_source, result, before>>

NextLoad == ProgramNew \/ Validate

SpecLoad == InitLoad /\ [][NextLoad]_vars

Next ==
    \/ ProgramNew
    \/ Validate
    \/ VMNew
    \/ Interpret
    \/ MoveLeft
    \/ MoveRight
    \/ Increment
    \/ Decrement
    \/ Input
    \/ Output
    \/ BeginLoop
    \/ EndLoop
    \/ Finish
    \/ Drop

Spec == Init /\ [][Next]_vars

\* Every byte value: the one-byte input streams of the cell specification.
Bytes == 0..255

\* The loop of interpret is entered on a fresh VM of one cell with the
\* program ",+-" or ",-+" and an input stream of one byte, any byte.
InitCell ==
    /\ file_path = "hello_world.bf"
    /\ source \in {<<",", "+", "-">>, <<",", "-", "+">>}
    /\ instructions = Program_new(file_path, source).instructions
    /\ validation = Program_validate(file_path, instructions)
    /\ LET vm == VM_new(1, FALSE, TheProgram) IN
       /\ memory = vm.memory
       /\ pointer = vm.pointer
       /\ can_extend = vm.can_extend
       /\ program_counter = vm.program_counter
       /\ open_to_close = vm.open_to_close
       /\ close_to_open = vm.close_to_open
    /\ read_source \in {Cursor_new(<<byte>>) : byte \in Bytes}
    /\ LET w == AutoNewlineWriter_new(<<>>) IN
       /\ write_destination = w.writer
       /\ last_written_char_is_newline = w.last_written_char_is_newline
    /\ writer_full = FALSE
    /\ result = NotRun
    /\ before = NoStep
    /\ stage = "running"

NextCell == Input \/ Increment \/ Decrement \/ Finish \/ Drop

SpecCell == InitCell /\ [][NextCell]_vars

---------------------------------------------------------------------------
(* The AutoNewlineWriter on its own: write calls with buffers of any       *)
(* length, then the drop, over a Vec<u8>, which takes every byte.          *)

\* The buffers of the write calls: the empty one, and one or two bytes each
\* a line terminator or the letter a.
WriteBuffers == UNION {[1..k -> {NewlineByte, 97}] : k \in 0..MaxBufLen}

\* Write for Vec<u8> answers every write with Ok(buf.len()).
VecOutcomes == {"Ok(n)"}

\* let mut auto_newline_writer = AutoNewlineWriter::new(&mut writer)
InitWriter ==
    /\ file_path = ""
    /\ source = <<>>
    /\ instructions = <<>>
    /\ validation = NotRun
    /\ memory = <<>>
    /\ pointer = 0
    /\ can_extend = FALSE
    /\ program_counter = 0
    /\ open_to_close = HashMap_new
    /\ close_to_open = HashMap_new
    /\ read_source = Cursor_new(<<>>)
    /\ LET w == AutoNewlineWriter_new(<<>>) IN
       /\ write_destination = w.writer
       /\ last_written_char_is_newline = w.last_written_char_is_newline
    /\ writer_full = FALSE
    /\ result = NotRun
    /\ before = NoStep
    /\ stage = "writing"

\* auto_newline_writer.write(buf). The calls are followed up to
\* MaxWrittenLen bytes in the Vec.
WriterWrite ==
    /\ stage = "writing"
    /\ \E buf \in WriteBuffers, outcome \in VecOutcomes :
          LET r == AutoNewlineWriter_write(Writer, buf, outcome) IN
          /\ Len(write_destination) + Len(buf) <= MaxWrittenLen
          /\ write_destination' = r.self.writer
          /\ last_written_char_is_newline' = r.self.last_written_char_is_newline
          /\ before' = [op |-> "write", buf |-> buf,
                        write_destination |-> write_destination]
    /\ UNCHANGED <<loader_vars, vm_vars, read_source, writer_full, result, stage>>

\* drop(auto_newline_writer)
WriterDrop ==
    /\ stage = "writing"
    /\ \E outcome \in VecOutcomes :
          LET w == AutoNewlineWriter_drop(Writer, outcome) IN
          /\ write_destination' = w.writer
          /\ last_written_char_is_newline' = w.last_written_char_is_newline
    /\ before' = [op |-> "drop", write_destination |-> write_destination]
    /\ stage' = "returned"
    /\ UNCHANGED <<loader_vars, vm_vars, read_source, writer_full, result>>

NextWriter == WriterWrite \/ WriterDrop

SpecWriter == InitWriter /\ [][NextWriter]_vars

---------------------------------------------------------------------------
(* The counted loop: k Increments followed by "[-]", on a fresh VM.        *)

\* The text of k "+" followed by "[-]".
CountedLoop(k) == [i \in 1..k |-> "+"] \o <<"[", "-", "]">>

\* The loop of interpret is entered on a fresh VM that cannot extend, with a
\* counted loop as its program, an empty input stream and an empty sink.
\* The state is written out as Program::new, Program::validate and VM::new
\* leave it for a text of one line of opcodes with one pair of brackets: the
\* i-th character is the instruction of row 1 and column i, the brackets
\* are balanced, and the jump table pairs index k with index k + 2.
InitLoop ==
    /\ file_path = "hello_world.bf"
    /\ source \in {CountedLoop(k) : k \in 1..MaxIncrements}
    /\ instructions =
          [i \in 1..Len(source) |-> Instruction(1, i, from_char(source[i]))]
    /\ validation = Ok
    /\ memory \in {resize(<<>>, memory_size, u8_zero) :
                      memory_size \in 1..MaxMemorySize}
    /\ pointer = 0
    /\ can_extend = FALSE
    /\ program_counter = 0
    /\ open_to_close = insert(HashMap_new, Len(source) - 3, Len(source) - 1)
    /\ close_to_open = insert(HashMap_new, Len(source) - 1, Len(source) - 3)
    /\ read_source = Cursor_new(<<>>)
    /\ LET w == AutoNewlineWriter_new(<<>>) IN
       /\ write_destination = w.writer
       /\ last_written_char_is_newline = w.last_written_char_is_newline
    /\ writer_full = FALSE
    /\ result = NotRun
    /\ before = NoStep
    /\ stage = "running"

NextLoop == Increment \/ Decrement \/ BeginLoop \/ EndLoop \/ Finish \/ Drop

\* interpret is one sequential loop with nothing to wait for in these
\* instructions: as long as a step is possible, one is taken.
SpecLoop == InitLoop /\ [][NextLoop]_vars /\ WF_vars(NextLoop)

---------------------------------------------------------------------------
(* Programs without loops: a whole run on texts of the six opcodes that    *)
(* are not brackets, short enough for no run to be cut by MaxOutputLen or  *)
(* MaxTapeLen.                                                             *)

StraightChars == OpcodeChars \ {"[", "]"}

InitStraight ==
    /\ file_path = "hello_world.bf"
    /\ source \in Texts(StraightChars, MaxStraightLen)
    /\ instructions = <<>>
    /\ validation = NotRun
    /\ stage = "source"
    /\ NoVM

NextStraight ==
    \/ ProgramNew
    \/ Validate
    \/ VMNew
    \/ Interpret
    \/ MoveLeft
    \/ MoveRight
    \/ Increment
    \/ Decrement
    \/ Input
    \/ Output
    \/ Finish
    \/ Drop

\* main and interpret are sequential code, and a read from a Cursor and a
\* write to the sink return: as long as a step is possible, one is taken.
SpecStraight == InitStraight /\ [][NextStraight]_vars /\ WF_vars(NextStraight)

---------------------------------------------------------------------------
(* A whole run followed by one more call of interpret on the same VM.      *)

\* vm.interpret(read_source, write_destination) once more, after the first
\* call returned Ok: the caller passes a Cursor over some input and either
\* a new, empty sink or the sink of the first call; interpret wraps the
\* sink in a new AutoNewlineWriter.
InterpretAgain ==
    /\ stage = "returned"
    /\ result = Ok
    /\ before.op /= "interpret"
    /\ \E input \in ReadSources, same_sink \in BOOLEAN :
          LET sink == IF same_sink THEN write_destination ELSE <<>>
              w == AutoNewlineWriter_new(sink)
          IN /\ read_source' = Cursor_new(input)
             /\ write_destination' = w.writer
             /\ last_written_char_is_newline' = w.last_written_char_is_newline
             /\ writer_full' = (same_sink /\ writer_full)
             /\ before' = [op |-> "interpret", memory |-> memory,
                           pointer |-> pointer,
                           program_counter |-> program_counter,
                           read_source |-> Cursor_new(input),
                           write_destination |-> sink]
    /\ result' = NotRun
    /\ stage' = "running"
    /\ UNCHANGED <<loader_vars, vm_vars>>

NextAgain == Next \/ InterpretAgain

SpecAgain == Init /\ [][NextAgain]_vars

---------------------------------------------------------------------------
(* Vocabulary of the loader's properties: the bracket structure of the     *)
(* instruction sequence, counted rather than stacked.                      *)

IsBegin(i) == instructions[i].raw_instruction = "BeginLoop"

IsEnd(i) == instructions[i].raw_instruction = "EndLoop"

\* BeginLoops minus EndLoops among the first k instructions.
Depth(k) ==
    Cardinality({i \in 1..k : IsBegin(i)}) - Cardinality({i \in 1..k : IsEnd(i)})

\* The balanced-parentheses property over the two bracket opcodes.
Balanced ==
    /\ \A k \in 1..Len(instructions) : Depth(k) >= 0
    /\ Depth(Len(instructions)) = 0

\* EndLoops met while no BeginLoop is pending at or before them.
Unopened == {i \in 1..Len(instructions) : IsEnd(i) /\ Depth(i) < 0}

\* BeginLoops that no later EndLoop closes.
Unclosed ==
    {i \in 1..Len(instructions) :
        IsBegin(i) /\ \A j \in i..Len(instructions) : Depth(j) >= Depth(i)}

Min(S) == CHOOSE x \in S : \A y \in S : x <= y

Max(S) == CHOOSE x \in S : \A y \in S : x >= y

\* C1: Program::validate returns Ok if and only if the BeginLoop and EndLoop
\* instructions form a balanced bracket string; no other opcode matters.
C1_ValidateIffBalanced ==
    stage = "validated" => (validation = Ok <=> Balanced)

\* A loop around another opcode, accepted.
C1_Witness ==
    /\ stage = "validated"
    /\ validation = Ok
    /\ \E i, j, k \in 1..Len(instructions) :
          /\ i < j /\ j < k
          /\ IsBegin(i) /\ IsEnd(k)
          /\ instructions[j].raw_instruction = "Increment"

\* C2: an EndLoop scanned while no BeginLoop is pending makes validate fail
\* with MissingOpenBracket carrying the file path and the first such EndLoop,
\* also when the program holds unmatched BeginLoops.
C2_UnmatchedCloseReported ==
    (stage = "validated" /\ Unopened /= {}) =>
        validation = MissingOpenBracket(file_path, instructions[Min(Unopened)])

\* Two unopened EndLoops and an unclosed BeginLoop, under a named file.
C2_Witness ==
    /\ stage = "validated"
    /\ validation.kind = "MissingOpenBracket"
    /\ Cardinality(Unopened) >= 2
    /\ Unclosed /= {}
    /\ file_path /= ""

\* C3: a scan that ends with BeginLoops pending and met no unopened EndLoop
\* makes validate fail with MissingCloseBracket carrying the file path and
\* the earliest BeginLoop that no EndLoop closes.
C3_UnmatchedOpenReported ==
    (stage = "validated" /\ Unopened = {} /\ Unclosed /= {}) =>
        validation = MissingCloseBracket(file_path, instructions[Min(Unclosed)])

\* A closed loop first, then two BeginLoops left open.
C3_Witness ==
    /\ stage = "validated"
    /\ validation.kind = "MissingCloseBracket"
    /\ Cardinality(Unclosed) >= 2
    /\ Min(Unclosed) > 1
    /\ file_path /= ""

\* The opcode each of the eight characters stands for in the language.
Language ==
    [c \in OpcodeChars |->
        CASE c = "<" -> "MoveLeft"
          [] c = ">" -> "MoveRight"
          [] c = "+" -> "Increment"
          [] c = "-" -> "Decrement"
          [] c = "." -> "Output"
          [] c = "," -> "Input"
          [] c = "[" -> "BeginLoop"
          [] c = "]" -> "EndLoop"]

\* Positions of the opcode characters in the source text.
OpcodePositions == {p \in 1..Len(source) : source[p] \in OpcodeChars}

\* Position of the k-th opcode character of the source text.
OpcodePosition(k) ==
    CHOOSE p \in OpcodePositions :
        Cardinality({q \in OpcodePositions : q <= p}) = k

\* Positions of the line breaks before position p.
BreaksBefore(p) == {q \in 1..(p - 1) : source[q] = "\n"}

\* C4: the instruction sequence of Program::new is exactly the subsequence
\* of the opcode characters of the text, in order, each with its opcode.
C4_InstructionsAreOpcodeSubsequence ==
    stage \in {"loaded", "validated"} =>
        /\ Len(instructions) = Cardinality(OpcodePositions)
        /\ \A k \in 1..Len(instructions) :
              instructions[k].raw_instruction = Language[source[OpcodePosition(k)]]

\* A text with a comment, a line break, a multi-byte character and an
\* Input or Output character.
C4_Witness ==
    /\ stage = "loaded"
    /\ \E a, b, c, d \in 1..Len(source) :
          /\ source[a] = "c" /\ source[b] = "\n" /\ source[c] = "U+4E2D"
          /\ source[d] \in {".", ","}
    /\ Len(instructions) = 1

\* C5: every Instruction carries row = 1 + the line breaks before its
\* character, and col = 1 + the characters (a multi-byte one counted once)
\* between the last line break before it and its character.
C5_RowColOfInstruction ==
    stage \in {"loaded", "validated"} =>
        \A k \in 1..Cardinality(OpcodePositions) :
            /\ k <= Len(instructions)
            /\ LET p == OpcodePosition(k) IN
               /\ instructions[k].row = 1 + Cardinality(BreaksBefore(p))
               /\ instructions[k].col = p - Max(BreaksBefore(p) \cup {0})

\* An instruction on a later line, behind a multi-byte character.
C5_Witness ==
    /\ stage = "loaded"
    /\ \E k \in 1..Len(instructions) :
          /\ instructions[k].row >= 2
          /\ instructions[k].col >= 2
          /\ source[OpcodePosition(k) - 1] = "U+4E2D"

---------------------------------------------------------------------------
(* Vocabulary of the VM's properties. `before` holds the VM as the latest   *)
(* instruction found it; the variables hold what that instruction left.    *)

\* Bits of a cell: VM<u8>.
CellWidth == 8

\* The latest instruction had this opcode.
Executed(op) == before.op = op

\* The latest instruction returned Ok: interpret has no error to return.
Succeeded == result.kind \in {"NotRun", "Ok"}

\* The cell under the pointer, before and after the latest instruction.
CellBefore == before.memory[before.pointer + 1]

CellAfter == memory[before.pointer + 1]

\* C6: Increment turns the maximum into 0 and otherwise adds 1, Decrement
\* turns 0 into the maximum and otherwise subtracts 1, neither fails, and
\* every cell is within 0 .. 2^W - 1 in every reachable state.
C6_WrappingCells ==
    /\ \A i \in 1..Len(memory) : memory[i] \in 0..(2^CellWidth - 1)
    /\ Executed("Increment") =>
          /\ Succeeded
          /\ CellAfter = IF CellBefore = 2^CellWidth - 1 THEN 0 ELSE CellBefore + 1
    /\ Executed("Decrement") =>
          /\ Succeeded
          /\ CellAfter = IF CellBefore = 0 THEN 2^CellWidth - 1 ELSE CellBefore - 1

\* An Increment found the cell at 255 and left it at 0.
C6_Witness ==
    /\ Executed("Increment")
    /\ CellBefore = 255
    /\ CellAfter = 0
    /\ program_counter = before.program_counter + 1

\* C7: for every cell value v, increment then decrement gives v back, and
\* so does decrement then increment. The cell is read from the input
\* stream, whose one byte is v, and both instructions have run.
C7_IncrementDecrementRoundTrip ==
    (program_counter = 3 /\ before.op \in {"Increment", "Decrement"}) =>
        memory[1] = read_source.inner[1]

\* 255 went to 0 and came back.
C7_Witness ==
    /\ program_counter = 3
    /\ Executed("Decrement")
    /\ read_source.inner = <<255>>
    /\ CellBefore = 0
    /\ memory[1] = 255

\* C8: MoveLeft with the pointer at 0 fails with CannotMoveLeftError and
\* leaves the pointer at 0, whatever the tape length and the extend flag;
\* with the pointer above 0 it succeeds and lowers the pointer by 1.
C8_MoveLeft ==
    Executed("MoveLeft") =>
        IF before.pointer = 0
        THEN /\ result.kind = "CannotMoveLeftError"
             /\ pointer = 0
        ELSE /\ Succeeded
             /\ pointer = before.pointer - 1

\* A MoveLeft that failed at cell 0 of an extensible tape of several cells.
C8_Witness ==
    /\ Executed("MoveLeft")
    /\ before.pointer = 0
    /\ result.kind = "CannotMoveLeftError"
    /\ can_extend
    /\ Len(memory) >= 2

\* C9: on a tape that cannot extend, MoveRight with the pointer at the last
\* cell fails with CannotMoveRightError and leaves the pointer and the tape
\* length as they were; below the last cell it succeeds and raises the
\* pointer by 1.
C9_MoveRightNotExtensible ==
    (Executed("MoveRight") /\ ~can_extend) =>
        IF before.pointer = Len(before.memory) - 1
        THEN /\ result.kind = "CannotMoveRightError"
             /\ pointer = before.pointer
             /\ Len(memory) = Len(before.memory)
        ELSE /\ Succeeded
             /\ pointer = before.pointer + 1

\* A MoveRight that failed at the last of two cells.
C9_Witness ==
    /\ Executed("MoveRight")
    /\ ~can_extend
    /\ Len(before.memory) = 2
    /\ before.pointer = 1
    /\ result.kind = "CannotMoveRightError"

\* C10: on a tape of length N that can extend, MoveRight with the pointer at
\* N - 1 succeeds, the tape length becomes 2N, the first N cells keep their
\* values, the N new cells are 0 and the pointer becomes N.
C10_MoveRightExtends ==
    (Executed("MoveRight") /\ can_extend
        /\ before.pointer = Len(before.memory) - 1) =>
        LET N == Len(before.memory) IN
        /\ Succeeded
        /\ Len(memory) = 2 * N
        /\ \A i \in 1..N : memory[i] = before.memory[i]
        /\ \A i \in (N + 1)..(2 * N) : memory[i] = 0
        /\ pointer = N

\* A tape of two cells, both written, doubled to four.
C10_Witness ==
    /\ Executed("MoveRight")
    /\ can_extend
    /\ Len(before.memory) = 2
    /\ before.pointer = 1
    /\ before.memory[1] /= 0
    /\ before.memory[2] /= 0
    /\ Len(memory) = 4
    /\ pointer = 2

\* A VM exists: VM::new has returned.
Constructed == stage \in {"constructed", "running", "dropping", "returned"}

\* C11: from the construction of the VM on, through every state of interpret
\* and after it returned, 0 <= pointer < length of the tape; the tape has at
\* least one cell; a freshly constructed VM has its pointer at 0 and every
\* cell at 0.
C11_PointerWithinTape ==
    /\ Constructed =>
          /\ Len(memory) >= 1
          /\ 0 <= pointer
          /\ pointer < Len(memory)
    /\ stage = "constructed" =>
          /\ pointer = 0
          /\ \A i \in 1..Len(memory) : memory[i] = u8_zero

\* interpret returned Ok with the pointer on the last cell of a tape that
\* grew to four cells.
C11_Witness ==
    /\ stage = "returned"
    /\ can_extend
    /\ Len(memory) = 4
    /\ pointer = Len(memory) - 1
    /\ result = Ok

\* The index (from 0, as the program counter counts) of the EndLoop that
\* matches the BeginLoop at index i: the first later instruction after which
\* the depth is back to what it was before i.
MatchingEndLoop(i) ==
    Min({j \in (i + 1)..(Len(instructions) - 1) : Depth(j + 1) = Depth(i)})

\* The index of the BeginLoop that matches the EndLoop at index j: the last
\* earlier instruction before which the depth was what it is after j.
MatchingBeginLoop(j) ==
    Max({i \in 0..(j - 1) : Depth(i) = Depth(j + 1)})

\* C12: BeginLoop at index i with the current cell at zero sets the program
\* counter to the index of the matching EndLoop plus 1; with the cell not
\* zero it sets it to i + 1. It does not fail and does not write the tape.
C12_BeginLoop ==
    Executed("BeginLoop") =>
        /\ Succeeded
        /\ memory = before.memory
        /\ pointer = before.pointer
        /\ program_counter =
              IF CellBefore = 0
              THEN MatchingEndLoop(before.program_counter) + 1
              ELSE before.program_counter + 1

\* An outer loop skipped over the loop nested in it: from index 0 to index
\* 4 or beyond, past an inner EndLoop that is not its match.
C12_Witness ==
    /\ Executed("BeginLoop")
    /\ CellBefore = 0
    /\ before.program_counter = 0
    /\ IsBegin(2)
    /\ IsEnd(3)
    /\ program_counter = 4
    /\ program_counter = MatchingEndLoop(0) + 1

\* C13: EndLoop at index j with the current cell not zero sets the program
\* counter to the index of the matching BeginLoop plus 1, the first
\* instruction of the body; with the cell at zero it sets it to j + 1. It
\* does not fail and does not write the tape.
C13_EndLoop ==
    Executed("EndLoop") =>
        /\ Succeeded
        /\ memory = before.memory
        /\ pointer = before.pointer
        /\ program_counter =
              IF CellBefore /= 0
              THEN MatchingBeginLoop(before.program_counter) + 1
              ELSE before.program_counter + 1

\* The EndLoop at index 3 found the cell not zero and jumped back to the body
\* of its loop, index 2, the BeginLoop being at index 1.
C13_Witness ==
    /\ Executed("EndLoop")
    /\ CellBefore /= 0
    /\ before.program_counter = 3
    /\ IsBegin(2)
    /\ program_counter = 2
    /\ program_counter = MatchingBeginLoop(3) + 1

\* The instruction the latest step executed.
InstructionBefore == instructions[before.program_counter + 1]

\* C14: a successful Input takes exactly one byte from the input source, the
\* next one, and stores it in the current cell, touching no other cell and
\* not the pointer, and the program counter advances by 1. The source is at
\* its start when interpret begins and no other step takes a byte from it,
\* so the k-th successful Input stores the k-th byte of the source.
C14_InputStoresNextByte ==
    /\ (stage = "running" /\ before = NoStep) => read_source.pos = 0
    /\ (before /= NoStep /\ ~(Executed("Input") /\ Succeeded)) =>
          read_source = before.read_source
    /\ (Executed("Input") /\ Succeeded) =>
          /\ read_source.inner = before.read_source.inner
          /\ read_source.pos = before.read_source.pos + 1
          /\ CellAfter = read_source.inner[read_source.pos]
          /\ \A i \in 1..Len(memory) :
                i /= before.pointer + 1 => memory[i] = before.memory[i]
          /\ Len(memory) = Len(before.memory)
          /\ pointer = before.pointer
          /\ program_counter = before.program_counter + 1

\* The second successful Input stored the second byte of the source over
\* the first one.
C14_Witness ==
    /\ Executed("Input")
    /\ Succeeded
    /\ read_source.inner = <<10, 65>>
    /\ read_source.pos = 2
    /\ CellBefore = 10
    /\ CellAfter = 65

\* C15: Input on an exhausted source fails, and an Input that fails, at the
\* end of the source or on an error of the read, makes interpret return
\* CannotReadInputError with the program's file path and the Input
\* instruction, its row and column; the tape, the current cell with it, and
\* the pointer are as they were before the instruction.
C15_InputFailure ==
    Executed("Input") =>
        /\ before.read_source.pos >= Len(before.read_source.inner) => ~Succeeded
        /\ ~Succeeded =>
              /\ result.kind = "CannotReadInputError"
              /\ result.file_path = file_path
              /\ result.instruction = InstructionBefore
              /\ result.instruction.raw_instruction = "Input"
              /\ memory = before.memory
              /\ pointer = before.pointer

\* interpret returned the error of the second Input of the program, which
\* found the source exhausted by the first; the cell holds the first byte.
C15_Witness ==
    /\ stage = "returned"
    /\ Executed("Input")
    /\ result.kind = "CannotReadInputError"
    /\ result.io_error = "UnexpectedEof"
    /\ result.instruction.col = 2
    /\ before.read_source = [inner |-> <<65>>, pos |-> 1]
    /\ CellAfter = 65

\* What finalization is to append after a sink whose last written byte is
\* the given one: nothing after a line terminator, one terminator otherwise.
Terminator(last_byte) == IF last_byte = NewlineByte THEN <<>> ELSE <<NewlineByte>>

\* C16: an Output that completes without error appends to the sink exactly
\* one byte, the value of the current cell, and advances the program counter
\* by 1; when interpret then returns Ok the sink holds what it held before
\* that Output, the cell's value, and the terminator of finalization.
C16_OutputAppendsCell ==
    /\ (Executed("Output") /\ Succeeded /\ stage \in {"running", "dropping"}) =>
          /\ write_destination = Append(before.write_destination, CellBefore)
          /\ program_counter = before.program_counter + 1
    /\ (Executed("Output") /\ result = Ok /\ stage = "returned") =>
          write_destination =
              Append(before.write_destination, CellBefore) \o Terminator(CellBefore)

\* The last byte of the sink is a line terminator.
EndsWithNewline(sink) == sink /= <<>> /\ sink[Len(sink)] = NewlineByte

\* C17: after any sequence of write calls through an AutoNewlineWriter, none
\* at all included, the drop appends nothing when the last byte written to
\* the wrapped sink is a line terminator and exactly one line terminator
\* otherwise, never two. The sink is a Vec that was empty when wrapped, so
\* its last byte is the last byte written.
C17_DropAppendsOneTerminatorIfNone ==
    (stage = "returned" /\ Executed("drop")) =>
        write_destination =
            IF EndsWithNewline(before.write_destination)
            THEN before.write_destination
            ELSE Append(before.write_destination, NewlineByte)

\* C18: whenever interpret has returned, with Ok or with any runtime error,
\* the bytes the sink holds end with a line-terminator byte.
C18_SinkEndsWithNewline ==
    stage = "returned" => EndsWithNewline(write_destination)

\* s is a prefix of t.
IsPrefix(s, t) == Len(s) <= Len(t) /\ SubSeq(t, 1, Len(s)) = s

\* C19: the sink is append-only during interpret: every step, the failing
\* one and the drop of the AutoNewlineWriter included, leaves what the sink
\* held as a prefix of what it holds, so that the bytes written before a
\* failing instruction are still there after interpret returned the error.
C19_SinkAppendOnly ==
    [][IsPrefix(write_destination, write_destination')]_vars

\* interpret returned the error of a MoveLeft; the byte an Output wrote
\* before it is in the sink, followed by the terminator.
C19_Witness ==
    /\ stage = "returned"
    /\ Executed("MoveLeft")
    /\ result.kind = "CannotMoveLeftError"
    /\ Len(before.write_destination) >= 1
    /\ write_destination = Append(before.write_destination, NewlineByte)

\* C20: interpret stops at the first failing instruction. The step that
\* fails leaves the program counter on the failing instruction and its error
\* is the result; from then on no instruction is executed, the failing one
\* not again either, no byte is taken from the input source, the result
\* stays that error, and the only step left is the return of interpret.
C20_StopsAtFirstFailure ==
    [][/\ (Succeeded /\ ~Succeeded') =>
              /\ program_counter' = program_counter
              /\ before'.program_counter = program_counter
              /\ "instruction" \in DOMAIN result' =>
                    result'.instruction = instructions[program_counter + 1]
       /\ ~Succeeded =>
              /\ stage = "dropping"
              /\ stage' = "returned"
              /\ result' = result
              /\ UNCHANGED <<vm_vars, read_source, before>>]_vars

\* interpret returned the error of its first instruction: the Input that
\* follows it was not executed and the input source still has its byte.
C20_Witness ==
    /\ stage = "returned"
    /\ ~Succeeded
    /\ program_counter = 0
    /\ before.program_counter = 0
    /\ Len(instructions) >= 2
    /\ instructions[2].raw_instruction = "Input"
    /\ read_source.pos = 0
    /\ Len(read_source.inner) >= 1

\* This step is the instruction with this opcode.
Executes(op) == before' /= before /\ before'.op = op

\* This step is a write that the sink answered with an error: the sink was
\* asked for a byte, holds what it held, and did not answer Ok(0).
OutputWriteFailed ==
    Executes("Output") /\ write_destination' = write_destination /\ ~writer_full'

DropWriteFailed ==
    /\ stage = "dropping" /\ stage' = "returned"
    /\ ~last_written_char_is_newline
    /\ write_destination' = write_destination
    /\ ~writer_full'

\* C21: every failure of a read from the input source or of a write to the
\* sink during interpret, the write of the terminator by the drop of the
\* AutoNewlineWriter included, is returned by interpret as an error: after a
\* step in which a read found the source exhausted or a write was answered
\* with an error, the result of interpret is not Ok.
C21_NoFailureSwallowed ==
    [][/\ (Executes("Input")
              /\ read_source.pos >= Len(read_source.inner)) => ~Succeeded'
       /\ OutputWriteFailed => ~Succeeded'
       /\ DropWriteFailed => ~Succeeded']_vars

\* The values interpret can return and the Display of which main prints.
RuntimeErrorKinds ==
    {"CannotMoveLeftError", "CannotMoveRightError",
     "CannotReadInputError", "CannotWriteOutputError"}

\* C22: for a program that passed Program::validate, a tape of N >= 1 cells,
\* either extend setting and any input, VM::new and interpret do not panic:
\* VM::new never pops the empty stack, each instruction about to be executed
\* finds its cell within the tape and, if it is a BeginLoop or an EndLoop,
\* its entry in the jump table, and interpret has returned nothing but Ok or
\* one of the four runtime errors.
C22_NeverPanics ==
    /\ (stage = "validated" /\ validation = Ok) =>
          \A memory_size \in 1..MaxMemorySize, extend \in BOOLEAN :
              VM_new(memory_size, extend, TheProgram).kind = "Ok"
    /\ (stage = "running" /\ program_counter < Len(instructions)) =>
          /\ program_counter + 1 \in DOMAIN instructions
          /\ pointer + 1 \in DOMAIN memory
          /\ IsBegin(program_counter + 1) =>
                program_counter \in DOMAIN open_to_close
          /\ IsEnd(program_counter + 1) =>
                program_counter \in DOMAIN close_to_open
    /\ result.kind \in {"NotRun", "Ok"} \cup RuntimeErrorKinds
    /\ result.kind /= Panic.kind

\* interpret returned the error of a MoveLeft inside a loop, which the
\* BeginLoop before it had let in.
C22_Witness ==
    /\ stage = "returned"
    /\ Executed("MoveLeft")
    /\ result.kind = "CannotMoveLeftError"
    /\ before.program_counter = 2
    /\ IsBegin(2)
    /\ IsEnd(4)

\* interpret has left its loop: it is returning or has returned.
Returning == stage \in {"dropping", "returned"}

\* C23: for a validated program of n instructions the program counter is 0
\* in the fresh VM and within 0 .. n in every state; interpret returns Ok
\* exactly when the program counter is n, and with an error the program
\* counter is below n.
C23_ProgramCounterWithinProgram ==
    /\ stage = "constructed" => program_counter = 0
    /\ Constructed =>
          /\ 0 <= program_counter
          /\ program_counter <= Len(instructions)
    /\ Returning =>
          /\ result = Ok <=> program_counter = Len(instructions)
          /\ result /= Ok => program_counter < Len(instructions)

\* interpret returned Ok with the program counter at 4, the count, which the
\* last EndLoop of the program reached by falling through.
C23_Witness ==
    /\ stage = "returned"
    /\ result = Ok
    /\ Executed("EndLoop")
    /\ before.program_counter = 3
    /\ program_counter = 4
    /\ Len(instructions) = 4

\* The number of Increments of the counted loop that is the program.
LoopCount == Len(instructions) - 3

\* interpret returned Ok with the current cell at 0 and the program counter
\* at the instruction count.
LoopDone ==
    /\ stage = "returned"
    /\ result = Ok
    /\ memory[pointer + 1] = 0
    /\ program_counter = Len(instructions)

\* The steps of a counted loop of k Increments, k a value of a cell: the
\* BeginLoop finds the cell at k and enters the body; the Decrement of the
\* body finds the cell at one of k, k - 1, .., 1 and lowers it by 1, so that
\* it is executed once for each of these k values and never wraps; the
\* EndLoop goes back to the body unless the cell is 0; interpret returns
\* nothing but Ok, and returns with the cell at 0 and the program counter at
\* the instruction count.
LoopSteps ==
    LoopCount <= u8_max =>
        /\ Executed("BeginLoop") =>
              /\ CellBefore = LoopCount
              /\ program_counter >= LoopCount + 1
        /\ Executed("Decrement") =>
              /\ CellBefore \in 1..LoopCount
              /\ CellAfter = CellBefore - 1
        /\ Executed("EndLoop") =>
              /\ before.program_counter = LoopCount + 2
              /\ program_counter >=
                    (IF CellBefore /= 0 THEN LoopCount + 1 ELSE LoopCount + 3)
        /\ Succeeded
        /\ Returning =>
              /\ result = Ok
              /\ memory[pointer + 1] = 0
              /\ program_counter = Len(instructions)

\* The state the counted loop starts from is the one the loader, the
\* validator and VM::new compute from its text.
LoopAsConstructed ==
    LoopCount <= MaxRebuilt =>
        /\ instructions = Program_new(file_path, source).instructions
        /\ validation = Program_validate(file_path, instructions)
        /\ LET vm == VM_new(Len(memory), can_extend, TheProgram) IN
           /\ vm.kind = "Ok"
           /\ open_to_close = vm.open_to_close
           /\ close_to_open = vm.close_to_open
           /\ before = NoStep =>
                 /\ memory = vm.memory
                 /\ pointer = vm.pointer
                 /\ program_counter = vm.program_counter

\* C24: interpreting k Increments followed by "[-]", 1 <= k <= 255, on a
\* fresh VM of any tape length terminates with Ok, the current cell at 0 and
\* the program counter at the instruction count, after executing the body of
\* the loop exactly k times.
C24_CountedLoopTerminates == [](LoopAsConstructed /\ LoopSteps) /\ <>LoopDone

\* The run of 255 Increments and "[-]" returned: the Decrement found the
\* cell at 1, the 255th value it found, and the EndLoop after it let go.
C24_Witness ==
    /\ LoopDone
    /\ LoopCount = 255
    /\ Executed("EndLoop")
    /\ CellBefore = 0

\* The indices, from 0, of the BeginLoops and of the EndLoops.
BeginLoops == {i \in 0..(Len(instructions) - 1) : IsBegin(i + 1)}

EndLoops == {j \in 0..(Len(instructions) - 1) : IsEnd(j + 1)}

\* C25: for a validated program the jump table of VM::new maps each
\* BeginLoop to the EndLoop a forward scan counting depth finds for it;
\* close_to_open is the inverse of open_to_close; each pair has the
\* BeginLoop first; two pairs are nested or apart, never interleaved; every
\* bracket is in exactly one pair; and in every state of interpret and
\* after it the table is the one VM::new built.
C25_JumpTableMatchesScan ==
    /\ stage = "constructed" =>
          /\ DOMAIN open_to_close = BeginLoops
          /\ DOMAIN close_to_open = EndLoops
          /\ \A i \in BeginLoops :
                /\ open_to_close[i] = MatchingEndLoop(i)
                /\ open_to_close[i] \in EndLoops
                /\ i < open_to_close[i]
                /\ close_to_open[open_to_close[i]] = i
          /\ \A j \in EndLoops :
                /\ close_to_open[j] = MatchingBeginLoop(j)
                /\ open_to_close[close_to_open[j]] = j
          /\ \A i1, i2 \in BeginLoops :
                i1 < i2 =>
                    \/ open_to_close[i2] < open_to_close[i1]
                    \/ open_to_close[i1] < i2
    /\ Constructed =>
          LET vm == VM_new(Len(memory), can_extend, TheProgram) IN
          /\ open_to_close = vm.open_to_close
          /\ close_to_open = vm.close_to_open

\* interpret returned on the program of two nested loops, the table still
\* pairing 0 with 3 and 1 with 2.
C25_Witness ==
    /\ stage = "returned"
    /\ BeginLoops = {0, 1}
    /\ EndLoops = {2, 3}
    /\ open_to_close[0] = 3
    /\ open_to_close[1] = 2
    /\ close_to_open[3] = 0
    /\ close_to_open[2] = 1

\* The opcode of the instruction that raises each runtime error.
OpcodeOf(kind) ==
    IF kind = "CannotMoveLeftError" THEN "MoveLeft"
    ELSE IF kind = "CannotMoveRightError" THEN "MoveRight"
    ELSE IF kind = "CannotReadInputError" THEN "Input"
    ELSE "Output"

\* C26: a runtime error returned by interpret carries the file path of the
\* program and the Instruction, row, column and opcode, at the program
\* counter of the step that failed, however that step was reached; the
\* opcode is MoveLeft for CannotMoveLeftError, MoveRight for
\* CannotMoveRightError, Input for CannotReadInputError and Output for
\* CannotWriteOutputError.
C26_ErrorCarriesInstruction ==
    ~Succeeded =>
        /\ result.kind \in RuntimeErrorKinds
        /\ result.file_path = file_path
        /\ result.instruction = InstructionBefore
        /\ result.instruction = instructions[program_counter + 1]
        /\ result.instruction.row = 1
        /\ result.instruction.col = before.program_counter + 1
        /\ result.instruction.raw_instruction = OpcodeOf(result.kind)
        /\ result.instruction.raw_instruction = before.op

\* interpret returned the error of the Output at column 3, which the
\* BeginLoop at column 1 had jumped to over its EndLoop.
C26_Witness ==
    /\ stage = "returned"
    /\ result.kind = "CannotWriteOutputError"
    /\ result.instruction = Instruction(1, 3, "Output")
    /\ IsBegin(1)
    /\ IsEnd(2)
    /\ result.file_path = "hello_world.bf"

\* C27: when an instruction fails, a MoveLeft at cell 0, a MoveRight at the
\* last cell of a tape that cannot extend, an Input whose read fails or an
\* Output whose write or flush fails, the pointer, every cell, the tape
\* length and the program counter are what they were before it: the program
\* counter is left on the failing instruction. Each of the four does fail.
C27_FailureLeavesVMUnchanged ==
    /\ ~Succeeded =>
          /\ before.op \in {"MoveLeft", "MoveRight", "Input", "Output"}
          /\ pointer = before.pointer
          /\ memory = before.memory
          /\ Len(memory) = Len(before.memory)
          /\ program_counter = before.program_counter
          /\ instructions[program_counter + 1].raw_instruction = before.op
    /\ (Executed("MoveLeft") /\ before.pointer = 0) => ~Succeeded
    /\ (Executed("MoveRight") /\ ~can_extend
           /\ before.pointer = Len(before.memory) - 1) => ~Succeeded
    /\ (Executed("Input")
           /\ before.read_source.pos >= Len(before.read_source.inner)) => ~Succeeded

\* interpret returned the error of an Input at the end of the input stream,
\* with the pointer on the second cell, which holds the byte an earlier
\* Input stored.
C27_Witness ==
    /\ stage = "returned"
    /\ Executed("Input")
    /\ result.kind = "CannotReadInputError"
    /\ result.io_error = "UnexpectedEof"
    /\ before.pointer = 1
    /\ memory = <<0, 65>>
    /\ program_counter = 2

\* Every cell but the one that was under the pointer is as it was, and so is
\* the tape length.
OtherCellsUnchanged ==
    /\ Len(memory) = Len(before.memory)
    /\ \A i \in 1..Len(memory) :
          i /= before.pointer + 1 => memory[i] = before.memory[i]

\* The sink holds what it held before the latest instruction, or that and
\* the terminator once the AutoNewlineWriter was dropped.
SinkUntouched ==
    IF stage = "returned"
    THEN write_destination \in
            {before.write_destination,
             Append(before.write_destination, NewlineByte)}
    ELSE write_destination = before.write_destination

\* C28: each instruction changes only its part of the state. BeginLoop and
\* EndLoop change nothing but the program counter; Increment, Decrement and
\* Input nothing but the cell under the pointer and the program counter;
\* MoveLeft and MoveRight no cell that existed; Output no cell and not the
\* pointer. Only Input takes bytes from the input source and only Output,
\* and the drop, write to the sink.
C28_FrameOfEachInstruction ==
    /\ before.op \in {"BeginLoop", "EndLoop"} =>
          /\ memory = before.memory
          /\ pointer = before.pointer
    /\ before.op \in {"Increment", "Decrement", "Input"} =>
          /\ OtherCellsUnchanged
          /\ pointer = before.pointer
    /\ before.op \in {"MoveLeft", "MoveRight"} =>
          /\ Len(memory) >= Len(before.memory)
          /\ \A i \in 1..Len(before.memory) : memory[i] = before.memory[i]
    /\ Executed("Output") =>
          /\ memory = before.memory
          /\ pointer = before.pointer
    /\ (before /= NoStep /\ ~Executed("Input")) =>
          read_source = before.read_source
    /\ (before /= NoStep /\ ~Executed("Output")) => SinkUntouched
    /\ before = NoStep =>
          write_destination \in {<<>>, <<NewlineByte>>}

\* The program "[]" went from program counter 0 to 2 in one step on a fresh
\* VM of two cells, both still 0, and interpret returned Ok.
C28_Witness ==
    /\ stage = "returned"
    /\ result = Ok
    /\ Len(instructions) = 2
    /\ Executed("BeginLoop")
    /\ before.program_counter = 0
    /\ program_counter = 2
    /\ memory = <<0, 0>>
    /\ pointer = 0
    /\ read_source.pos = 0

\* The latest instruction was a MoveRight off the last cell of a tape that
\* can extend.
GrewTape ==
    /\ Executed("MoveRight")
    /\ can_extend
    /\ before.pointer = Len(before.memory) - 1

\* N * 2^k for a length N a VM can be created with and some k >= 0.
IsDoubledLength(len) ==
    \E memory_size \in 1..MaxMemorySize, k \in 0..len :
        len = memory_size * 2^k

\* C29: the tape never shrinks. A fresh VM has the N >= 1 cells it was
\* created with; on a VM that cannot extend the length stays N through every
\* instruction; on one that can, the length is N * 2^k, and an instruction
\* changes it, to its double, only if it is a MoveRight executed with the
\* pointer at the last index.
C29_TapeLength ==
    Constructed =>
        /\ before = NoStep => Len(memory) \in 1..MaxMemorySize
        /\ ~can_extend => Len(memory) \in 1..MaxMemorySize
        /\ IsDoubledLength(Len(memory))
        /\ before /= NoStep =>
              /\ Len(memory) >= Len(before.memory)
              /\ Len(memory) =
                    IF GrewTape THEN 2 * Len(before.memory) ELSE Len(before.memory)
              /\ ~can_extend => Len(memory) = Len(before.memory)

\* A tape that doubled to 4 cells kept its length in the next MoveRight,
\* which took the pointer to its last cell.
C29_Witness ==
    /\ can_extend
    /\ Executed("MoveRight")
    /\ ~GrewTape
    /\ Len(before.memory) = 4
    /\ Len(memory) = 4
    /\ pointer = 3

\* The steps of a program of n instructions without brackets: each
\* instruction that succeeds raises the program counter by exactly 1, so the
\* instruction at index i is the (i + 1)-th executed and is executed once;
\* one that fails is the first to fail, leaves the counter on itself and
\* ends the run with its error; interpret returns Ok only with the counter
\* at n, the n-th instruction being the latest executed, and no run is cut
\* short by the bounds on the sink and the tape.
StraightSteps ==
    /\ (before /= NoStep /\ Succeeded) =>
          program_counter = before.program_counter + 1
    /\ ~Succeeded =>
          /\ program_counter = before.program_counter
          /\ result.instruction = InstructionBefore
          /\ Returning
    /\ Constructed => program_counter <= Len(instructions)
    /\ (Returning /\ result = Ok) =>
          /\ program_counter = Len(instructions)
          /\ Len(instructions) > 0 =>
                before.program_counter = Len(instructions) - 1
    /\ (stage = "running" /\ program_counter < Len(instructions)) =>
          \/ ENABLED MoveLeft
          \/ ENABLED MoveRight
          \/ ENABLED Increment
          \/ ENABLED Decrement
          \/ ENABLED Input
          \/ ENABLED Output

\* C30: for a program of n instructions with no BeginLoop and no EndLoop,
\* interpret returns, having executed at most n instructions, each
\* successful one raising the program counter by exactly 1: it returns Ok
\* after exactly n instructions or the error of the first one that failed.
C30_StraightProgramTerminates ==
    []StraightSteps /\ <>(stage = "returned")

\* interpret returned Ok after the three instructions of a program that
\* read a byte, raised it and wrote it.
C30_Witness ==
    /\ stage = "returned"
    /\ result = Ok
    /\ Len(instructions) = 3
    /\ Executed("Output")
    /\ before.program_counter = 2
    /\ program_counter = 3
    /\ write_destination = <<66, 10>>

\* C31: interpret called again on a VM whose previous call returned Ok
\* executes no instruction: the program counter is at the instruction count
\* throughout, and when the call has returned the tape, the pointer and the
\* program counter are what they were, no byte was taken from the input
\* source, and the sink passed to the call holds what it held followed by
\* exactly one line-terminator byte.
C31_SecondCallWritesOneTerminator ==
    Executed("interpret") =>
        /\ program_counter = Len(instructions)
        /\ memory = before.memory
        /\ pointer = before.pointer
        /\ program_counter = before.program_counter
        /\ read_source = before.read_source
        /\ Succeeded
        /\ stage = "returned" =>
              write_destination = Append(before.write_destination, NewlineByte)

=============================================================================
